---- MODULE Spec2Model ----
(***************************************************************************)
(* Model of upkeep.py (AlexsLemonade/scrumlord): the daily script that     *)
(* closes old scrum issues and files issues for the upcoming workdays.     *)
(*                                                                         *)
(* A date is the triple <<year, month, day>> of datetime.date.  A string   *)
(* (an issue title, a holiday name, a line of holidays.txt) is a sequence  *)
(* of tokens: the date prefix of a title is spelled character by           *)
(* character, the rest by words.                                           *)
(***************************************************************************)
EXTENDS Integers, Sequences, FiniteSets, TLC

VARIABLES
    today,           \* what get_today() returns during the run
    holidays_txt,    \* the lines of holidays.txt, as readlines() gives them
    lifespan,        \* --lifespan
    workdays_ahead,  \* --workdays-ahead
    tracker,         \* the remote issue tracker: sequence of issues
    issues,          \* the list fetched by get_issues(state="open")
    pc,              \* position of the script
    idx,             \* position of the for loop of close_old_issues
    todo,            \* dates the for loop of __main__ has still to create
    log,             \* remote calls (and the fatal error) of the current run
    run,             \* number of the current invocation of the script
    prevClean,       \* the previous invocation ended normally with no failure
    fn,              \* function harness: the function under call
    arg,             \* function harness: its argument
    ret              \* function harness: its result

envVars == <<today, holidays_txt>>
runVars == <<lifespan, workdays_ahead, tracker, issues, pc, idx, todo, log, run, prevClean>>
fnVars  == <<fn, arg, ret>>
vars    == <<today, holidays_txt, lifespan, workdays_ahead, tracker, issues, pc,
             idx, todo, log, run, prevClean, fn, arg, ret>>

(***************************************************************************)
(* Bounds of the model.                                                    *)
(***************************************************************************)
MaxIssues == 2      \* issues open on the tracker before the first run
MaxAhead  == 2      \* largest --workdays-ahead
MaxRuns   == 2      \* invocations of the script on the same day
MaxRerunIssues == 1 \* issues open on the tracker before the first of several runs
MaxRerunAhead == 1  \* largest --workdays-ahead when the script runs several times
MaxLines  == 2      \* lines of holidays.txt in the function harness
MaxFnIssues == 2    \* issues passed to a function in the function harness
MaxFnAhead == 2     \* largest workdays_ahead in the function harness

(***************************************************************************)
(* datetime.date                                                           *)
(***************************************************************************)
IsLeap(y) == (y % 4 = 0) /\ ((y % 100 # 0) \/ (y % 400 = 0))

DaysInMonth(y, m) ==
    IF m = 2 THEN (IF IsLeap(y) THEN 29 ELSE 28)
    ELSE IF m \in {4, 6, 9, 11} THEN 30 ELSE 31

\* datetime.date(y, m, d) raises ValueError unless this holds
ValidDate(y, m, d) ==
    /\ y \in 1..9999
    /\ m \in 1..12
    /\ d \in 1..DaysInMonth(y, m)

RECURSIVE DaysBeforeMonth(_, _)
DaysBeforeMonth(y, m) ==
    IF m = 1 THEN 0 ELSE DaysBeforeMonth(y, m - 1) + DaysInMonth(y, m - 1)

\* date.toordinal()
ToOrdinal(date) ==
    LET y == date[1] - 1
    IN  y * 365 + (y \div 4) - (y \div 100) + (y \div 400)
          + DaysBeforeMonth(date[1], date[2]) + date[3]

\* date.weekday(): Monday is 0, Sunday is 6
Weekday(date) == (ToOrdinal(date) + 6) % 7

\* date + datetime.timedelta(days=1)
NextDay(date) ==
    IF date[3] < DaysInMonth(date[1], date[2]) THEN <<date[1], date[2], date[3] + 1>>
    ELSE IF date[2] < 12 THEN <<date[1], date[2] + 1, 1>>
    ELSE <<date[1] + 1, 1, 1>>

\* date - datetime.timedelta(days=1): used to enumerate inputs only
PrevDay(date) ==
    IF date[3] > 1 THEN <<date[1], date[2], date[3] - 1>>
    ELSE IF date[2] > 1 THEN <<date[1], date[2] - 1, DaysInMonth(date[1], date[2] - 1)>>
    ELSE <<date[1] - 1, 12, 31>>

RECURSIVE AddDays(_, _)
AddDays(date, n) ==
    IF n = 0 THEN date
    ELSE IF n > 0 THEN AddDays(NextDay(date), n - 1)
    ELSE AddDays(PrevDay(date), n + 1)

\* the comparison were it written >=
OlderThan_ge(a, b, n) == ToOrdinal(a) - ToOrdinal(b) >= n

\* (a - b) > datetime.timedelta(days=n)
OlderThan(a, b, n) == ToOrdinal(a) - ToOrdinal(b) > n

\* sorted() of a set of dates
RECURSIVE SortedDates(_)
SortedDates(S) ==
    IF S = {} THEN <<>>
    ELSE LET least == CHOOSE d \in S : \A e \in S : ToOrdinal(d) <= ToOrdinal(e)
         IN  <<least>> \o SortedDates(S \ {least})

Range(s) == {s[k] : k \in 1..Len(s)}

(***************************************************************************)
(* Title codec                                                             *)
(***************************************************************************)
Digits == <<"0", "1", "2", "3", "4", "5", "6", "7", "8", "9">>

IsDigit(c) == \E n \in 1..10 : Digits[n] = c

\* int() of one matched character
DigitVal(c) == (CHOOSE n \in 1..10 : Digits[n] = c) - 1

WeekdayNames ==
    <<"Monday", "Tuesday", "Wednesday", "Thursday", "Friday", "Saturday", "Sunday">>

MonthNames ==
    <<"January", "February", "March", "April", "May", "June", "July",
      "August", "September", "October", "November", "December">>

\* one decimal digit of n, as a character
Dig(n) == Digits[(n % 10) + 1]

\* a number in decimal, without leading zeros
RECURSIVE Decimal(_)
Decimal(n) == IF n < 10 THEN <<Dig(n)>> ELSE Decimal(n \div 10) \o <<Dig(n)>>

\* "%-d": the day of the month without a leading zero
DayNoPad(d) == Decimal(d)

\* str(date) were it written without zero padding ("%d-%d-%d")
IsoFormat_nopad(date) ==
    <<Dig(date[1] \div 1000), Dig(date[1] \div 100), Dig(date[1] \div 10), Dig(date[1]), "-">>
      \o DayNoPad(date[2]) \o <<"-">> \o DayNoPad(date[3])

\* str(date): date.isoformat(), "%04d-%02d-%02d"
IsoFormat(date) ==
    <<Dig(date[1] \div 1000), Dig(date[1] \div 100), Dig(date[1] \div 10), Dig(date[1]), "-",
      Dig(date[2] \div 10), Dig(date[2]), "-",
      Dig(date[3] \div 10), Dig(date[3])>>

\* title = f"{date}: e-scrum for {date:%A, %B %-d, %Y}" (%Y as glibc prints it)
ScrumTitle(date) ==
    IsoFormat(date) \o <<":", " e-scrum for ", WeekdayNames[Weekday(date) + 1], ", ",
                         MonthNames[date[2]], " ">>
      \o DayNoPad(date[3]) \o <<", ">> \o Decimal(date[1])

\* pattern.match(title) for ([0-9]{4})-([0-9]{2})-([0-9]{2}):
PatternMatch(title) ==
    /\ Len(title) >= 11
    /\ \A k \in {1, 2, 3, 4, 6, 7, 9, 10} : IsDigit(title[k])
    /\ title[5] = "-"
    /\ title[8] = "-"
    /\ title[11] = ":"

\* map(int, match.groups())
MatchGroups(title) ==
    <<DigitVal(title[1]) * 1000 + DigitVal(title[2]) * 100
        + DigitVal(title[3]) * 10 + DigitVal(title[4]),
      DigitVal(title[6]) * 10 + DigitVal(title[7]),
      DigitVal(title[9]) * 10 + DigitVal(title[10])>>

NoDate == <<0, 0, 0>>

\* issue_title_to_date were it to swallow the ValueError and return None
issue_title_to_date_skip(title) ==
    IF PatternMatch(title)
    THEN LET g == MatchGroups(title)
         IN  IF ValidDate(g[1], g[2], g[3])
             THEN [tag |-> "date", val |-> g]
             ELSE [tag |-> "None", val |-> NoDate]
    ELSE [tag |-> "None", val |-> NoDate]

\* the three outcomes of issue_title_to_date: a date, None, or ValueError raised
issue_title_to_date(title) ==
    IF PatternMatch(title)
    THEN LET g == MatchGroups(title)
         IN  IF ValidDate(g[1], g[2], g[3])
             THEN [tag |-> "date", val |-> g]
             ELSE [tag |-> "ValueError", val |-> NoDate]
    ELSE [tag |-> "None", val |-> NoDate]

(***************************************************************************)
(* Holidays                                                                *)
(***************************************************************************)
\* PA_HOLIDAYS.get(date, ""): the official name of the date, "" when it has none
PA_HOLIDAYS_get(date) ==
    CASE date = <<2022, 12, 25>> -> <<"Christmas Day">>
      [] date = <<2022, 12, 26>> -> <<"Christmas Day", " (Observed)">>
      [] date = <<2023, 1, 1>>   -> <<"New Year's Day">>
      [] date = <<2023, 1, 2>>   -> <<"New Year's Day", " (Observed)">>
      [] date = <<2024, 12, 25>> -> <<"Christmas Day">>
      [] date = <<2025, 1, 1>>   -> <<"New Year's Day">>
      [] OTHER -> <<>>

Whitespace == {" ", "\t", "\n"}

\* str.strip()
RECURSIVE LStrip(_)
LStrip(s) == IF s # <<>> /\ Head(s) \in Whitespace THEN LStrip(Tail(s)) ELSE s

RECURSIVE RStrip(_)
RStrip(s) ==
    IF s # <<>> /\ s[Len(s)] \in Whitespace THEN RStrip(SubSeq(s, 1, Len(s) - 1)) ELSE s

Strip(s) == RStrip(LStrip(s))

\* str.replace(" (Observed)", "")
RemoveObserved(name) == SelectSeq(name, LAMBDA t : t # " (Observed)")

\* get_holidays were it to keep the empty lines
get_holidays_keep_blank ==
    {Strip(holidays_txt[k]) : k \in {j \in 1..Len(holidays_txt) :
        Strip(holidays_txt[j]) = <<>> \/ Head(Strip(holidays_txt[j])) # "#"}}

\* the set of the stripped lines that are not empty and do not start with "#"
get_holidays ==
    {Strip(holidays_txt[k]) : k \in {j \in 1..Len(holidays_txt) :
        /\ Strip(holidays_txt[j]) # <<>>
        /\ Head(Strip(holidays_txt[j])) # "#"}}

is_holiday(date) == RemoveObserved(PA_HOLIDAYS_get(date)) \in get_holidays

\* holidays.WEEKEND is (SAT, SUN)
is_workday(date) == Weekday(date) \notin {5, 6} /\ ~is_holiday(date)

get_today == today

\* the while loop were "i += 1" written outside the if
RECURSIVE upcoming_loop_dedent(_, _, _)
upcoming_loop_dedent(date, i, ahead) ==
    IF i < ahead
    THEN LET next == NextDay(date)
         IN  IF is_workday(next)
             THEN <<next>> \o upcoming_loop_dedent(next, i + 1, ahead)
             ELSE upcoming_loop_dedent(next, i + 1, ahead)
    ELSE <<>>

\* the while loop of get_upcoming_workdays
RECURSIVE upcoming_loop(_, _, _)
upcoming_loop(date, i, ahead) ==
    IF i < ahead
    THEN LET next == NextDay(date)
         IN  IF is_workday(next)
             THEN <<next>> \o upcoming_loop(next, i + 1, ahead)
             ELSE upcoming_loop(next, i, ahead)
    ELSE <<>>

\* the dates the generator yields, in order
get_upcoming_workdays(ahead) ==
    (IF is_workday(get_today) THEN <<get_today>> ELSE <<>>)
      \o upcoming_loop(get_today, 0, ahead)

\* the set comprehension were it to read only the issues still open
TitleDates_open(iss) ==
    {issue_title_to_date(iss[k].title).val : k \in {j \in 1..Len(iss) : iss[j].state = "open"}}

\* the set comprehension of line 68: None stands in the set as NoDate
TitleDates(iss) == {issue_title_to_date(iss[k].title).val : k \in 1..Len(iss)}

\* some title of the list makes issue_title_to_date raise
AnyCorrupt(iss) == \E k \in 1..Len(iss) : issue_title_to_date(iss[k].title).tag = "ValueError"

\* get_future_dates_without_issues were line 68 left out
get_future_dates_without_issues_nosub(iss, ahead) ==
    IF AnyCorrupt(iss)
    THEN [tag |-> "ValueError", val |-> <<>>]
    ELSE [tag |-> "ok", val |-> SortedDates(Range(get_upcoming_workdays(ahead)))]

get_future_dates_without_issues(iss, ahead) ==
    IF AnyCorrupt(iss)
    THEN [tag |-> "ValueError", val |-> <<>>]
    ELSE [tag |-> "ok",
          val |-> SortedDates(Range(get_upcoming_workdays(ahead)) \ TitleDates(iss))]

(***************************************************************************)
(* Inputs of a run                                                         *)
(***************************************************************************)
Todays ==
    { <<2024, 12, 31>>,    \* Tuesday, the day before New Year's Day
      <<2025, 1, 1>>,      \* Wednesday, New Year's Day
      <<2022, 12, 23>>,    \* Friday before Christmas Day (Sunday) and its observance
      <<2022, 12, 31>>,    \* Saturday
      <<2024, 2, 28>> }    \* Wednesday before a leap day

\* the days the script is run on
RunDays == Todays \ { <<2024, 2, 28>> }

Lifespans == {-1, 0, 1}

HolidayFiles ==
    { <<>>,
      << <<"#", " ", "holidays", "\n">>, <<"\n">>, <<"New Year's Day", "\n">>,
         <<" ", "Christmas Day", " ", "\n">> >> }

RandomTitle == <<"R", "a", "n", "d", "o", "m", " ", "i", "s", "s", "u", "e">>

CorruptTitle == <<"2", "0", "2", "4", "-", "0", "2", "-", "3", "0", ":", " bad">>

TitlePool(day) ==
    {ScrumTitle(AddDays(day, k)) : k \in {-2, -1, 0, 1}} \cup {RandomTitle, CorruptTitle}

SeqsUpTo(S, n) == UNION {[1..k -> S] : k \in 0..n}

\* the issues of the tracker, all open, with the given titles
OpenIssues(titles) ==
    [k \in 1..Len(titles) |->
        [id |-> k, title |-> titles[k], state |-> "open", mine |-> FALSE]]

Pending == [done |-> FALSE, val |-> <<>>]

FnIdle ==
    /\ fn = "none"
    /\ arg = <<>>
    /\ ret = Pending

(***************************************************************************)
(* The script                                                              *)
(***************************************************************************)
Init ==
    /\ today \in RunDays
    /\ holidays_txt \in HolidayFiles
    /\ lifespan \in Lifespans
    /\ workdays_ahead \in 0..MaxAhead
    /\ tracker \in {OpenIssues(t) : t \in SeqsUpTo(TitlePool(today), MaxIssues)}
    /\ issues = <<>>
    /\ pc = "fetch"
    /\ idx = 1
    /\ todo = <<>>
    /\ log = <<>>
    /\ run = 1
    /\ prevClean = FALSE
    /\ FnIdle

\* the statements of __main__ were the creation loop written before the closing
NextPhase_swapped(phase) ==
    CASE phase = "fetch"     -> "reconcile"
      [] phase = "reconcile" -> "create"
      [] phase = "create"    -> "close"
      [] phase = "close"     -> "done"

\* the order of the statements of __main__
NextPhase(phase) ==
    CASE phase = "fetch"     -> "close"
      [] phase = "close"     -> "reconcile"
      [] phase = "reconcile" -> "create"
      [] phase = "create"    -> "done"

\* issues = repository.get_issues(state="open")
Fetch ==
    /\ pc = "fetch"
    /\ issues' = SelectSeq(tracker, LAMBDA x : x.state = "open")
    /\ idx' = 1
    /\ pc' = NextPhase("fetch")
    /\ UNCHANGED <<lifespan, workdays_ahead, tracker, todo, log, run, prevClean>>
    /\ UNCHANGED <<envVars, fnVars>>

\* the subtraction were it written date - today
IsOld_reversed(date) == OlderThan(date, get_today, lifespan)

\* today - date > lifespan
IsOld(date) == OlderThan(get_today, date, lifespan)

\* the issue with the given id gets the closed state
SetClosed(list, id) ==
    [k \in 1..Len(list) |->
        IF list[k].id = id THEN [list[k] EXCEPT !.state = "closed"] ELSE list[k]]

Event(op, id, date, ok) == [op |-> op, id |-> id, date |-> date, ok |-> ok]

InCloseLoop == pc = "close" /\ idx <= Len(issues)

Decoded == issue_title_to_date(issues[idx].title)

\* issue_title_to_date raises ValueError: nothing catches it
CloseRaise ==
    /\ InCloseLoop
    /\ Decoded.tag = "ValueError"
    /\ pc' = "fatal"
    /\ log' = Append(log, Event("raise", issues[idx].id, NoDate, FALSE))
    /\ UNCHANGED <<lifespan, workdays_ahead, tracker, issues, idx, todo, run, prevClean>>
    /\ UNCHANGED <<envVars, fnVars>>

\* no date in the title, or the issue is not older than lifespan
CloseSkip ==
    /\ InCloseLoop
    /\ \/ Decoded.tag = "None"
       \/ Decoded.tag = "date" /\ ~IsOld(Decoded.val)
    /\ idx' = idx + 1
    /\ UNCHANGED <<lifespan, workdays_ahead, tracker, issues, pc, todo, log, run, prevClean>>
    /\ UNCHANGED <<envVars, fnVars>>

\* issue.edit(state="closed") succeeds
CloseEditOk ==
    /\ InCloseLoop
    /\ Decoded.tag = "date"
    /\ IsOld(Decoded.val)
    /\ tracker' = SetClosed(tracker, issues[idx].id)
    /\ issues' = SetClosed(issues, issues[idx].id)
    /\ log' = Append(log, Event("edit", issues[idx].id, Decoded.val, TRUE))
    /\ idx' = idx + 1
    /\ UNCHANGED <<lifespan, workdays_ahead, pc, todo, run, prevClean>>
    /\ UNCHANGED <<envVars, fnVars>>

\* issue.edit(state="closed") raises, were there no try/except around it
CloseEditFail_uncaught ==
    /\ pc = "close"
    /\ idx <= Len(issues)
    /\ issue_title_to_date(issues[idx].title).tag = "date"
    /\ OlderThan(get_today, issue_title_to_date(issues[idx].title).val, lifespan)
    /\ pc' = "fatal"
    /\ log' = Append(log, [op |-> "edit", id |-> issues[idx].id,
                           date |-> issue_title_to_date(issues[idx].title).val, ok |-> FALSE])
    /\ UNCHANGED <<lifespan, workdays_ahead, tracker, issues, idx, todo, run, prevClean>>
    /\ UNCHANGED <<today, holidays_txt, fn, arg, ret>>

\* issue.edit(state="closed") raises: logged, the loop goes on
CloseEditFail ==
    /\ InCloseLoop
    /\ Decoded.tag = "date"
    /\ IsOld(Decoded.val)
    /\ log' = Append(log, Event("edit", issues[idx].id, Decoded.val, FALSE))
    /\ idx' = idx + 1
    /\ UNCHANGED <<lifespan, workdays_ahead, tracker, issues, pc, todo, run, prevClean>>
    /\ UNCHANGED <<envVars, fnVars>>

\* the for loop of close_old_issues is exhausted
CloseReturn ==
    /\ pc = "close"
    /\ idx > Len(issues)
    /\ pc' = NextPhase("close")
    /\ UNCHANGED <<lifespan, workdays_ahead, tracker, issues, idx, todo, log, run, prevClean>>
    /\ UNCHANGED <<envVars, fnVars>>

\* get_future_dates_without_issues(issues, args.workdays_ahead)
Reconcile ==
    /\ pc = "reconcile"
    /\ LET r == get_future_dates_without_issues(issues, workdays_ahead)
       IN  IF r.tag = "ValueError"
           THEN /\ pc' = "fatal"
                /\ log' = Append(log, Event("raise", 0, NoDate, FALSE))
                /\ todo' = todo
           ELSE /\ pc' = NextPhase("reconcile")
                /\ log' = log
                /\ todo' = r.val
    /\ UNCHANGED <<lifespan, workdays_ahead, tracker, issues, idx, run, prevClean>>
    /\ UNCHANGED <<envVars, fnVars>>

\* repository.create_issue(title=title, body=body) succeeds
CreateOk ==
    /\ pc = "create"
    /\ todo # <<>>
    /\ tracker' = Append(tracker, [id |-> Len(tracker) + 1, title |-> ScrumTitle(Head(todo)),
                                   state |-> "open", mine |-> TRUE])
    /\ log' = Append(log, Event("create", 0, Head(todo), TRUE))
    /\ todo' = Tail(todo)
    /\ UNCHANGED <<lifespan, workdays_ahead, issues, pc, idx, run, prevClean>>
    /\ UNCHANGED <<envVars, fnVars>>

\* repository.create_issue raises: logged, the loop goes on
CreateFail ==
    /\ pc = "create"
    /\ todo # <<>>
    /\ log' = Append(log, Event("create", 0, Head(todo), FALSE))
    /\ todo' = Tail(todo)
    /\ UNCHANGED <<lifespan, workdays_ahead, tracker, issues, pc, idx, run, prevClean>>
    /\ UNCHANGED <<envVars, fnVars>>

\* the for loop of __main__ is exhausted
CreateReturn ==
    /\ pc = "create"
    /\ todo = <<>>
    /\ pc' = NextPhase("create")
    /\ UNCHANGED <<lifespan, workdays_ahead, tracker, issues, idx, todo, log, run, prevClean>>
    /\ UNCHANGED <<envVars, fnVars>>

AllOk == \A k \in 1..Len(log) : log[k].ok

\* the script is invoked again on the same day
NextRun ==
    /\ pc \in {"done", "fatal"}
    /\ run < MaxRuns
    /\ run' = run + 1
    /\ prevClean' = (pc = "done" /\ AllOk)
    /\ pc' = "fetch"
    /\ log' = <<>>
    /\ todo' = <<>>
    /\ UNCHANGED <<lifespan, workdays_ahead, tracker, issues, idx>>
    /\ UNCHANGED <<envVars, fnVars>>

Next ==
    \/ Fetch
    \/ CloseRaise
    \/ CloseSkip
    \/ CloseEditOk
    \/ CloseEditFail
    \/ CloseReturn
    \/ Reconcile
    \/ CreateOk
    \/ CreateFail
    \/ CreateReturn

Spec == Init /\ [][Next]_vars

(***************************************************************************)
(* The script invoked several times on the same day                        *)
(***************************************************************************)
InitRerun ==
    /\ today \in RunDays
    /\ holidays_txt \in HolidayFiles
    /\ lifespan \in Lifespans
    /\ workdays_ahead \in 0..MaxRerunAhead
    /\ tracker \in {OpenIssues(t) : t \in SeqsUpTo(TitlePool(today), MaxRerunIssues)}
    /\ issues = <<>>
    /\ pc = "fetch"
    /\ idx = 1
    /\ todo = <<>>
    /\ log = <<>>
    /\ run = 1
    /\ prevClean = FALSE
    /\ FnIdle

NextRerun ==
    \/ Next
    \/ NextRun

SpecRerun == InitRerun /\ [][NextRerun]_vars

(***************************************************************************)
(* The functions called on their own: Init draws the function and its      *)
(* inputs, one action per function applies it.                             *)
(***************************************************************************)
QueryDates ==
    { <<2022, 12, 24>>, <<2022, 12, 25>>, <<2022, 12, 26>>, <<2023, 1, 1>>, <<2023, 1, 2>>,
      <<2024, 2, 29>>, <<2024, 12, 25>>, <<2024, 12, 31>>, <<2025, 1, 1>> }

LinePool ==
    { <<"\n">>,
      <<" ", "\t", "\n">>,
      <<"#", "New Year's Day", "\n">>,
      <<"New Year's Day", "\n">>,
      <<" ", "Christmas Day", " ", "\n">>,
      <<"Christmas Day", " (Observed)", "\n">>,
      <<"Labor Day">> }

RoundTripYears == {1, 999, 2000, 2023, 2024, 9999}

RoundTripDates ==
    {date \in RoundTripYears \X (1..12) \X (1..31) : ValidDate(date[1], date[2], date[3])}

BaseTitle == ScrumTitle(<<2024, 3, 4>>)

\* titles one character away from a scrum title, cut short, or unrelated
DecodeTitles ==
    {[BaseTitle EXCEPT ![k] = c] : k \in 1..11, c \in {"x", "-", ":", "7", " "}}
      \cup {SubSeq(BaseTitle, 1, n) : n \in 0..12}
      \cup {RandomTitle, CorruptTitle, BaseTitle,
            <<"0", "0", "0", "0", "-", "0", "1", "-", "0", "1", ":">>,
            <<"2", "0", "2", "4", "-", "1", "3", "-", "0", "1", ":", " bad">>,
            <<"2", "0", "2", "3", "-", "0", "2", "-", "2", "9", ":">>,
            <<" ">> \o BaseTitle}

RunIdle ==
    /\ lifespan = 0
    /\ workdays_ahead = 0
    /\ tracker = <<>>
    /\ issues = <<>>
    /\ pc = "idle"
    /\ idx = 1
    /\ todo = <<>>
    /\ log = <<>>
    /\ run = 0
    /\ prevClean = FALSE

InitFn ==
    /\ RunIdle
    /\ ret = Pending
    /\ \/ /\ fn = "is_holiday"
          /\ today = <<2024, 12, 31>>
          /\ holidays_txt \in SeqsUpTo(LinePool, MaxLines)
          /\ arg \in QueryDates
       \/ /\ fn = "get_upcoming_workdays"
          /\ today \in Todays
          /\ holidays_txt \in SeqsUpTo(LinePool, MaxLines)
          /\ arg \in 0..MaxFnAhead
       \/ /\ fn = "get_future_dates_without_issues"
          /\ today \in Todays
          /\ holidays_txt \in HolidayFiles
          /\ arg \in {[issues |-> OpenIssues(t), ahead |-> n] :
                        t \in SeqsUpTo(TitlePool(today), MaxFnIssues), n \in 0..MaxFnAhead}
       \/ /\ fn = "issue_title_to_date"
          /\ today = <<2024, 12, 31>>
          /\ holidays_txt = <<>>
          /\ arg \in DecodeTitles
       \/ /\ fn = "create_scrum_issue"
          /\ today = <<2024, 12, 31>>
          /\ holidays_txt = <<>>
          /\ arg \in RoundTripDates

Returned(value) == [done |-> TRUE, val |-> value]

Call_is_holiday ==
    /\ fn = "is_holiday"
    /\ ~ret.done
    /\ ret' = Returned(is_holiday(arg))
    /\ UNCHANGED <<envVars, fn, arg, runVars>>

Call_get_upcoming_workdays ==
    /\ fn = "get_upcoming_workdays"
    /\ ~ret.done
    /\ ret' = Returned(get_upcoming_workdays(arg))
    /\ UNCHANGED <<envVars, fn, arg, runVars>>

Call_get_future_dates_without_issues ==
    /\ fn = "get_future_dates_without_issues"
    /\ ~ret.done
    /\ ret' = Returned(get_future_dates_without_issues(arg.issues, arg.ahead))
    /\ UNCHANGED <<envVars, fn, arg, runVars>>

Call_issue_title_to_date ==
    /\ fn = "issue_title_to_date"
    /\ ~ret.done
    /\ ret' = Returned(issue_title_to_date(arg))
    /\ UNCHANGED <<envVars, fn, arg, runVars>>

\* the title create_scrum_issue builds for the date, read back by issue_title_to_date
Call_create_scrum_issue ==
    /\ fn = "create_scrum_issue"
    /\ ~ret.done
    /\ ret' = Returned([title |-> ScrumTitle(arg), decoded |-> issue_title_to_date(ScrumTitle(arg))])
    /\ UNCHANGED <<envVars, fn, arg, runVars>>

NextFn ==
    \/ Call_is_holiday
    \/ Call_get_upcoming_workdays
    \/ Call_get_future_dates_without_issues
    \/ Call_issue_title_to_date
    \/ Call_create_scrum_issue

SpecFn == InitFn /\ [][NextFn]_vars

(***************************************************************************)
(* Reference notions the properties are stated with                        *)
(***************************************************************************)
\* the first eleven characters of the title have the shape NNNN-NN-NN:
HasDatePrefix(title) ==
    /\ Len(title) >= 11
    /\ [k \in 1..11 |->
          IF title[k] \in {"0", "1", "2", "3", "4", "5", "6", "7", "8", "9"} THEN "N" ELSE title[k]]
         = <<"N", "N", "N", "N", "-", "N", "N", "-", "N", "N", ":">>

\* the title starts with the date written YYYY-MM-DD and a colon
TitleSpells(title, date) ==
    /\ Len(title) >= 11
    /\ SubSeq(title, 1, 11) = IsoFormat(date) \o <<":">>

\* the title has the date prefix but its numbers are no calendar date
CorruptRef(title) ==
    /\ PatternMatch(title)
    /\ ~ValidDate(MatchGroups(title)[1], MatchGroups(title)[2], MatchGroups(title)[3])

\* the line, less the whitespace around it, is the given non-empty text and no comment
LineAllows(line, text) ==
    /\ text # <<>>
    /\ text[1] # "#"
    /\ text[1] \notin Whitespace
    /\ text[Len(text)] \notin Whitespace
    /\ \E a \in 0..Len(line) :
          /\ a + Len(text) <= Len(line)
          /\ SubSeq(line, a + 1, a + Len(text)) = text
          /\ \A j \in (1..a) \cup ((a + Len(text) + 1)..Len(line)) : line[j] \in Whitespace

\* the official name of the date without its " (Observed)" parts
RECURSIVE WithoutObserved(_)
WithoutObserved(name) ==
    IF name = <<>> THEN <<>>
    ELSE IF Head(name) = " (Observed)" THEN WithoutObserved(Tail(name))
    ELSE <<Head(name)>> \o WithoutObserved(Tail(name))

IsHolidayRef(date) ==
    \E k \in 1..Len(holidays_txt) :
        LineAllows(holidays_txt[k], WithoutObserved(PA_HOLIDAYS_get(date)))

IsWorkdayRef(date) ==
    /\ WeekdayNames[Weekday(date) + 1] \notin {"Saturday", "Sunday"}
    /\ ~IsHolidayRef(date)

Ascending(dates) ==
    \A j \in 1..(Len(dates) - 1) : ToOrdinal(dates[j]) < ToOrdinal(dates[j + 1])

(***************************************************************************)
(* Properties of the functions, under SpecFn                               *)
(***************************************************************************)
\* C1: when get_future_dates_without_issues returns, it returns exactly the
\* dates get_upcoming_workdays yields less the dates the issues' titles spell,
\* strictly ascending; each is a workday and none is the date of an input
\* issue.  It raises exactly when some title is corrupt.
C1_FutureDates ==
    (fn = "get_future_dates_without_issues" /\ ret.done) =>
        LET iss == arg.issues
            out == ret.val
        IN  /\ out.tag = "ValueError" <=> \E k \in 1..Len(iss) : CorruptRef(iss[k].title)
            /\ out.tag = "ok" =>
                 /\ Ascending(out.val)
                 /\ Range(out.val) =
                       {d \in Range(get_upcoming_workdays(arg.ahead)) :
                           \A k \in 1..Len(iss) : ~TitleSpells(iss[k].title, d)}
                 /\ \A j \in 1..Len(out.val) :
                       /\ IsWorkdayRef(out.val[j])
                       /\ \A k \in 1..Len(iss) :
                             issue_title_to_date(iss[k].title).val # out.val[j]

\* an issue for today and an undated issue are passed: today is left out, the rest returned
C1_Witness ==
    /\ fn = "get_future_dates_without_issues"
    /\ ret.done
    /\ today = <<2024, 12, 31>>
    /\ holidays_txt # <<>>
    /\ arg.ahead = 2
    /\ Len(arg.issues) = 2
    /\ arg.issues[1].title = ScrumTitle(today)
    /\ arg.issues[2].title = RandomTitle
    /\ ret.val = [tag |-> "ok", val |-> << <<2025, 1, 2>>, <<2025, 1, 3>> >>]

\* C2: get_upcoming_workdays yields, strictly ascending, today first iff today
\* is a workday, then exactly the first workdays_ahead workdays after today;
\* no weekend date and no holiday is yielded.
C2_UpcomingWorkdays ==
    (fn = "get_upcoming_workdays" /\ ret.done) =>
        LET out == ret.val
            lead == IF IsWorkdayRef(today) THEN 1 ELSE 0
            span == IF out = <<>> THEN 0 ELSE ToOrdinal(out[Len(out)]) - ToOrdinal(today)
        IN  /\ Len(out) = lead + arg
            /\ lead = 1 => out[1] = today
            /\ Ascending(out)
            /\ \A j \in 1..Len(out) :
                  /\ IsWorkdayRef(out[j])
                  /\ j > lead => ToOrdinal(out[j]) > ToOrdinal(today)
            /\ \A m \in 1..span :
                  IsWorkdayRef(AddDays(today, m)) => AddDays(today, m) \in Range(out)
            /\ \A m \in 0..span :
                  is_workday(AddDays(today, m)) <=> IsWorkdayRef(AddDays(today, m))

\* today is Tuesday 2024-12-31, New Year's Day is allowed: Jan 1 is skipped
C2_Witness ==
    /\ fn = "get_upcoming_workdays"
    /\ ret.done
    /\ today = <<2024, 12, 31>>
    /\ arg = 2
    /\ \E k \in 1..Len(holidays_txt) : holidays_txt[k] = <<"New Year's Day", "\n">>
    /\ ret.val = << <<2024, 12, 31>>, <<2025, 1, 2>>, <<2025, 1, 3>> >>

\* C8: the title create_scrum_issue builds for a date decodes to that date,
\* and a title without the date prefix decodes to None, not to an error.
C8_RoundTrip ==
    /\ (fn = "create_scrum_issue" /\ ret.done) =>
          ret.val.decoded = [tag |-> "date", val |-> arg]
    /\ (fn = "issue_title_to_date" /\ ret.done /\ ~HasDatePrefix(arg)) =>
          ret.val = [tag |-> "None", val |-> NoDate]

\* the leap day of 2024 makes the round trip, through a title with a one-digit month
C8_Witness ==
    /\ fn = "create_scrum_issue"
    /\ ret.done
    /\ arg = <<2024, 2, 29>>
    /\ ret.val.title = <<"2", "0", "2", "4", "-", "0", "2", "-", "2", "9", ":", " e-scrum for ",
                         "Thursday", ", ", "February", " ", "2", "9", ", ", "2", "0", "2", "4">>
    /\ ret.val.decoded.val = arg

\* C9: is_holiday(date) iff the official name of the date, " (Observed)"
\* removed, is a stripped, non-empty, non-comment line of holidays.txt; a date
\* with no official name is never a holiday, whatever the file holds.
C9_IsHoliday ==
    (fn = "is_holiday" /\ ret.done) =>
        /\ ret.val <=> IsHolidayRef(arg)
        /\ PA_HOLIDAYS_get(arg) = <<>> => ~ret.val

\* an observed holiday is recognised through a padded line, next to a blank line
C9_Witness ==
    /\ fn = "is_holiday"
    /\ ret.done
    /\ arg = <<2022, 12, 26>>
    /\ holidays_txt = << <<"\n">>, <<" ", "Christmas Day", " ", "\n">> >>
    /\ ret.val = TRUE

(***************************************************************************)
(* Properties of a run, under Spec (C10 under SpecRerun)                   *)
(***************************************************************************)
Edits   == {k \in 1..Len(log) : log[k].op = "edit"}
Creates == {k \in 1..Len(log) : log[k].op = "create"}
Raises  == {k \in 1..Len(log) : log[k].op = "raise"}

EditsOf(id) == {k \in Edits : log[k].id = id}
CreatesOf(date) == {k \in Creates : log[k].date = date}

\* the title spells a date more than lifespan days before today
OldRef(title) ==
    /\ HasDatePrefix(title)
    /\ ~CorruptRef(title)
    /\ ToOrdinal(today) - ToOrdinal(MatchGroups(title)) >= lifespan + 1

\* the issues the loop of close_old_issues has gone past
Passed ==
    IF pc = "close" THEN idx - 1
    ELSE IF pc \in {"reconcile", "create", "done"} THEN Len(issues)
    ELSE 0

TitleOfId(id) == tracker[id].title

FirstCorrupt == CHOOSE k \in 1..Len(issues) :
    /\ CorruptRef(issues[k].title)
    /\ \A j \in 1..(k - 1) : ~CorruptRef(issues[j].title)

\* C4: when a fetched issue has a corrupt title, the run ends in the fatal
\* error raised at the first such issue: the loop never goes past it, nothing
\* is created, and nothing is attempted after the error.
C4_CorruptIsFatal ==
    /\ \A k \in Raises : k = Len(log) /\ pc = "fatal"
    /\ (pc # "fetch" /\ \E k \in 1..Len(issues) : CorruptRef(issues[k].title)) =>
          /\ pc \in {"close", "fatal"}
          /\ idx <= FirstCorrupt
          /\ Creates = {}
          /\ \A k \in Edits : \E j \in 1..(FirstCorrupt - 1) : issues[j].id = log[k].id
          /\ pc = "fatal" =>
                /\ idx = FirstCorrupt
                /\ log[Len(log)] = [op |-> "raise", id |-> issues[idx].id,
                                    date |-> NoDate, ok |-> FALSE]

\* an old issue was closed, then the corrupt title ended the run
C4_Witness ==
    /\ pc = "fatal"
    /\ Len(issues) = 2
    /\ issues[2].title = CorruptTitle
    /\ Len(log) = 2
    /\ log[1].op = "edit"
    /\ log[2].op = "raise"

\* the upcoming workdays no fetched issue is titled for
MissingRef ==
    {d \in Range(get_upcoming_workdays(workdays_ahead)) :
        \A j \in 1..Len(issues) : ~TitleSpells(issues[j].title, d)}

\* C5: without a corrupt title the run never ends in a fatal error, and when
\* it is done every old issue had exactly one close attempt and every missing
\* workday exactly one create attempt, whichever of them failed; an issue
\* whose close failed is still open.
C5_EveryAttemptOnce ==
    /\ pc = "fatal" => \E j \in 1..Len(issues) : CorruptRef(issues[j].title)
    /\ \A k \in Edits : ~log[k].ok => tracker[log[k].id].state = "open"
    /\ pc = "done" =>
          /\ \A j \in 1..Len(issues) :
                Cardinality(EditsOf(issues[j].id)) = IF OldRef(issues[j].title) THEN 1 ELSE 0
          /\ \A d \in MissingRef : Cardinality(CreatesOf(d)) = 1
          /\ \A k \in Creates : log[k].date \in MissingRef

\* a close failed and a create failed, and the later close and create were still made
C5_Witness ==
    /\ pc = "done"
    /\ Len(log) = 4
    /\ log[1] = [op |-> "edit", id |-> 1, date |-> AddDays(today, -2), ok |-> FALSE]
    /\ log[2].op = "edit" /\ log[2].id = 2 /\ log[2].ok
    /\ log[3].op = "create" /\ ~log[3].ok
    /\ log[4].op = "create" /\ log[4].ok
    /\ tracker[1].state = "open"

\* C6: within a run every close attempt comes before every create attempt.
C6_ClosesBeforeCreates ==
    \A a \in Creates : \A b \in Edits : b < a

\* a run with a failed close and a create
C6_Witness ==
    /\ pc = "done"
    /\ \E b \in Edits : ~log[b].ok
    /\ Creates # {}

\* C7: no date an issue is created for in a run is the title date of an issue
\* a close was attempted on in that run.
C7_DisjointDates ==
    \A a \in Creates : \A b \in Edits :
        /\ ~TitleSpells(TitleOfId(log[b].id), log[a].date)
        /\ log[a].date # log[b].date

\* with a negative lifespan today's issue is closed, today is an upcoming
\* workday, and another date gets its issue
C7_Witness ==
    /\ pc = "done"
    /\ lifespan < 0
    /\ Creates # {}
    /\ \E b \in Edits :
          /\ log[b].ok
          /\ log[b].date = today
          /\ log[b].date \in Range(get_upcoming_workdays(workdays_ahead))

\* the open issues this program created whose title spells the date
MineOpenFor(date) ==
    {k \in 1..Len(tracker) :
        tracker[k].mine /\ tracker[k].state = "open" /\ TitleSpells(tracker[k].title, date)}

\* C10: for lifespan >= 0, a run that follows, on the same day, a run whose
\* closes and creates all succeeded attempts no close and no create; no date
\* has two open issues created by the program.
C10_SecondRunIdle ==
    lifespan >= 0 =>
        /\ (run >= 2 /\ prevClean) => (Edits = {} /\ Creates = {} /\ pc # "fatal")
        /\ \A k \in 1..Len(tracker) :
              tracker[k].mine => Cardinality(MineOpenFor(MatchGroups(tracker[k].title))) <= 1

\* the first run closed an issue and created one, the second run is done
C10_Witness ==
    /\ run = 2
    /\ prevClean
    /\ pc = "done"
    /\ lifespan >= 0
    /\ \E k \in 1..Len(tracker) : tracker[k].state = "closed"
    /\ \E k \in 1..Len(tracker) : tracker[k].mine /\ tracker[k].state = "open"

====
